---------------------------- MODULE Spec2Model ----------------------------
(***************************************************************************)
(* Model of gitlint/git.py: the parsing of a raw commit message into a     *)
(* GitCommitMessage (from_full_message), and the two builders of a         *)
(* GitContext (from_commit_msg, from_local_repository).                    *)
(*                                                                         *)
(* Text is modelled character by character: a Python string is a sequence  *)
(* of one-character values.  The line feed and the carriage return are the *)
(* values LF and CR.  Python's None is the value None.                     *)
(***************************************************************************)
EXTENDS Integers, Sequences, FiniteSets, TLC

LF == "LF"
CR == "CR"
None == <<"None">>

\* ------------------------------------------------------------------------
\* Bounds of the model
\* ------------------------------------------------------------------------

\* Most lines of a raw commit message handed to from_commit_msg.
MaxLines == 3
\* Most commit identifiers the tool reports for a refspec.
MaxCommits == 2

\* ------------------------------------------------------------------------
\* Python string primitives used by git.py
\* ------------------------------------------------------------------------

\* str.startswith(prefix)
startswith(s, prefix) ==
    /\ Len(s) >= Len(prefix)
    /\ SubSeq(s, 1, Len(prefix)) = prefix

\* sep.join(parts)
RECURSIVE join(_, _)
join(parts, sep) ==
    IF parts = <<>> THEN <<>>
    ELSE IF Len(parts) = 1 THEN parts[1]
    ELSE parts[1] \o sep \o join(Tail(parts), sep)

\* Position of the first character of s that is in chars; 0 when there is none.
find(s, chars) ==
    LET at == { i \in 1..Len(s) : s[i] \in chars }
    IN  IF at = {} THEN 0 ELSE CHOOSE i \in at : \A j \in at : i <= j

\* Position of the first character of s that is not in chars; 0 when there is none.
find_other(s, chars) ==
    LET at == { i \in 1..Len(s) : s[i] \notin chars }
    IN  IF at = {} THEN 0 ELSE CHOOSE i \in at : \A j \in at : i <= j

\* A splitlines() that drops empty lines, as str.split() would.
RECURSIVE splitlines_dropping_empty(_)
splitlines_dropping_empty(s) ==
    LET p == find_other(s, {LF, CR})
        rest == SubSeq(s, p, Len(s))
        q == find(rest, {LF, CR})
    IN  IF p = 0 THEN <<>>
        ELSE IF q = 0 THEN <<rest>>
        ELSE <<SubSeq(rest, 1, q - 1)>>
                 \o splitlines_dropping_empty(SubSeq(rest, q + 1, Len(rest)))

\* str.splitlines(): a line ends at LF, at CR or at CR LF; the terminator is
\* dropped, and a terminator at the very end opens no further (empty) line.
\* (Python's further line boundaries, such as \v and \f, behave as a lone CR.)
RECURSIVE splitlines(_)
splitlines(s) ==
    LET q == find(s, {LF, CR})
        last == IF s[q] = CR /\ q < Len(s) /\ s[q + 1] = LF THEN q + 1 ELSE q
    IN  IF s = <<>> THEN <<>>
        ELSE IF q = 0 THEN <<s>>
        ELSE <<SubSeq(s, 1, q - 1)>> \o splitlines(SubSeq(s, last + 1, Len(s)))

\* str.split(sep) for a one-character sep: always at least one part.
RECURSIVE split(_, _)
split(s, sep) ==
    LET q == find(s, {sep})
    IN  IF q = 0 THEN <<s>>
        ELSE <<SubSeq(s, 1, q - 1)>> \o split(SubSeq(s, q + 1, Len(s)), sep)

\* str.split() without a separator: split on runs of whitespace, no empty part.
Whitespace == {" ", LF, CR}

RECURSIVE split_ws(_)
split_ws(s) ==
    LET p == find_other(s, Whitespace)
        rest == SubSeq(s, p, Len(s))
        q == find(rest, Whitespace)
    IN  IF p = 0 THEN <<>>
        ELSE IF q = 0 THEN <<rest>>
        ELSE <<SubSeq(rest, 1, q - 1)>> \o split_ws(SubSeq(rest, q + 1, Len(rest)))

\* str.replace(old, "") for a one-character old.
replace(s, old) == SelectSeq(s, LAMBDA c : c # old)

\* list.index(x), 1-based; 0 stands for the ValueError of a missing element.
index(seq, x) ==
    IF \E i \in 1..Len(seq) : seq[i] = x
    THEN CHOOSE i \in 1..Len(seq) :
            /\ seq[i] = x
            /\ \A j \in 1..(i - 1) : seq[j] # x
    ELSE 0

\* n copies of the character c.
repeat(c, n) == [i \in 1..n |-> c]

\* ------------------------------------------------------------------------
\* State
\* ------------------------------------------------------------------------

VARIABLES
    COMMENT_CHAR,   \* GitCommitMessage.COMMENT_CHAR, set once at import
    pc,             \* position of the running call
    entry,          \* the entry point called
    refspec,        \* from_local_repository's refspec argument (None: absent)
    repository_path,\* from_local_repository's repository_path argument
    sha_list,       \* from_local_repository's sha_list
    idx,            \* position of the for loop in sha_list
    pending,        \* locals of the loop body between the log and diff-tree calls
    commits,        \* context.commits of the context under construction
    result,         \* what the call gave its caller: nothing yet, a context, a raise
    calls,          \* tool invocations made so far by the call, in order
    reported,       \* the commit identifiers the tool reported at resolution
    served          \* the log records the tool served, in order

vars == <<COMMENT_CHAR, pc, entry, refspec, repository_path, sha_list, idx, pending,
          commits, result, calls, reported, served>>

\* ------------------------------------------------------------------------
\* The version-control tool (sh.git): what it may answer
\* ------------------------------------------------------------------------

\* `git config --get core.commentchar`: the configured character and a
\* newline, or exit status 1 when the key is not set.
ConfigResults == { [rc |-> 0, out |-> <<";", LF>>], [rc |-> 1, out |-> <<>>] }

Merge == <<"M", "e", "r", "g", "e">>

\* Commit identifiers of the repository.
Shas == { <<"a", "1">>, <<"b", "2">>, <<"c", "3">> }

\* The refspec argument: absent, or a refspec.
RefSpecs == { None, <<"m", "a", "i", "n">> }

\* Lists of distinct commit identifiers, at most n long.
RECURSIVE IdListsUpTo(_)
IdListsUpTo(n) ==
    IF n = 0 THEN { <<>> }
    ELSE LET shorter == IdListsUpTo(n - 1)
         IN  shorter \cup { Append(l, s) : l \in shorter, s \in Shas }

IdLists ==
    { l \in IdListsUpTo(MaxCommits) : \A i, j \in 1..Len(l) : i # j => l[i] # l[j] }

\* `git log -1 --pretty=%H`: the identifier and a newline.
LogHeadOutput(sha) == sha \o <<LF>>

\* `git rev-list <refspec>`: one identifier per line.
RECURSIVE RevListOutput(_)
RevListOutput(ids) ==
    IF ids = <<>> THEN <<>> ELSE ids[1] \o <<LF>> \o RevListOutput(Tail(ids))

AuthorDate ==
    <<"2", "0", "2", "1", "-", "0", "1", "-", "0", "1", " ",
      "1", "0", ":", "0", "0", ":", "0", "0", " ", "+", "0", "0", "0", "0">>

\* Commits of the repository as `git log <sha> -1 --pretty=%aN,%aE,%ai,%P%n%B`
\* writes them: header are the header line's comma-separated parts as the tool
\* wrote them, parents the commit's parent identifiers, msg its message (%B).
WellFormedRecords ==
    { [header  |-> <<<<"J">>, <<"j", "@", "x">>, AuthorDate, join(ps, <<" ">>)>>,
       parents |-> ps,
       msg     |-> m] :
        ps \in { <<>>, << <<"a", "1">> >>, << <<"a", "1">>, <<"b", "2">> >> },
        m  \in { <<"t", LF, LF, "b", LF>>, Merge \o <<" ", "x", LF>> } }

\* Records whose header line does not split into four parts: a truncated
\* header (fewer parts), an author name holding a comma (more parts).
MalformedRecords ==
    { [header  |-> <<<<"J">>, <<"j", "@", "x">>>>,
       parents |-> <<>>,
       msg     |-> <<"t", LF>>],
      [header  |-> <<<<"D", ",", "J">>, <<"j", "@", "x">>, AuthorDate, <<"a", "1">>>>,
       parents |-> << <<"a", "1">> >>,
       msg     |-> <<"t", LF>>] }

LogRecords == WellFormedRecords \cup MalformedRecords

LogOutput(rec) == join(rec.header, <<",">>) \o <<LF>> \o rec.msg

\* `git diff-tree --no-commit-id --name-only -r <sha>`: one path per line.
DiffTreeOutputs == { <<>>, <<"f", "1", LF, "f", "2", LF>> }

\* How an invocation fails: the executable is missing (sh.CommandNotFound), or
\* it exits non-zero (sh.ErrorReturnCode) with this on its error stream.
NotARepoStderr == "fatal: Not a git repository (or any of the parent directories): .git"
OtherStderr == "fatal: bad revision"

Failures ==
    { [exc |-> "CommandNotFound", stderr |-> ""],
      [exc |-> "ErrorReturnCode", stderr |-> NotARepoStderr],
      [exc |-> "ErrorReturnCode", stderr |-> OtherStderr] }

\* arrow.get(date, "YYYY-MM-DD HH:mm:ss Z").datetime: the parsed instant.
arrow_get(date) == <<"datetime">> \o date

\* ------------------------------------------------------------------------
\* git.py
\* ------------------------------------------------------------------------

\* git_commentchar(), on the result of `git config --get core.commentchar`.
git_commentchar(r) == IF r.rc = 1 THEN <<"#">> ELSE replace(r.out, LF)

DashCount == 24

\* GitCommitMessage.CUTLINE
CUTLINE ==
    COMMENT_CHAR \o <<" ">> \o repeat("-", DashCount) \o <<" ", ">", "8", " ">>
        \o repeat("-", DashCount)

GitCommitMessage(original, full, title, body) ==
    [original |-> original, full |-> full, title |-> title, body |-> body]

\* from_full_message with the comment lines dropped before the cut line is
\* looked for.
from_full_message_filter_first(commit_msg_str) ==
    LET all_lines == SelectSeq(splitlines(commit_msg_str),
                               LAMBDA line : ~startswith(line, COMMENT_CHAR))
        cutline_index == index(all_lines, CUTLINE)
        lines == IF cutline_index = 0 THEN all_lines
                 ELSE SubSeq(all_lines, 1, cutline_index - 1)
    IN  GitCommitMessage(commit_msg_str,
                         join(lines, <<LF>>),
                         IF Len(lines) > 0 THEN lines[1] ELSE <<>>,
                         IF Len(lines) > 1 THEN Tail(lines) ELSE <<>>)

\* from_full_message with the title taken from the unfiltered lines.
from_full_message_raw_title(commit_msg_str) ==
    LET all_lines == splitlines(commit_msg_str)
        cutline_index == index(all_lines, CUTLINE)
        considered == IF cutline_index = 0 THEN all_lines
                      ELSE SubSeq(all_lines, 1, cutline_index - 1)
        lines == SelectSeq(considered, LAMBDA line : ~startswith(line, COMMENT_CHAR))
    IN  GitCommitMessage(commit_msg_str,
                         join(lines, <<LF>>),
                         IF Len(all_lines) > 0 THEN all_lines[1] ELSE <<>>,
                         IF Len(lines) > 1 THEN Tail(lines) ELSE <<>>)

\* GitCommitMessage.from_full_message
from_full_message(commit_msg_str) ==
    LET all_lines == splitlines(commit_msg_str)
        cutline_index == index(all_lines, CUTLINE)
        considered == IF cutline_index = 0 THEN all_lines
                      ELSE SubSeq(all_lines, 1, cutline_index - 1)
        lines == SelectSeq(considered, LAMBDA line : ~startswith(line, COMMENT_CHAR))
    IN  GitCommitMessage(commit_msg_str,
                         join(lines, <<LF>>),
                         IF Len(lines) > 0 THEN lines[1] ELSE <<>>,
                         IF Len(lines) > 1 THEN Tail(lines) ELSE <<>>)

\* GitCommit.__init__ (the back-reference to the context is left out: __eq__
\* skips it).  An absent list argument is passed as the empty list, which
\* `parents or []` and `changed_files or []` map to the empty list as well.
GitCommit(message, sha, date, author_name, author_email, parents, is_merge_commit, changed_files) ==
    [message         |-> message,
     sha             |-> sha,
     date            |-> date,
     author_name     |-> author_name,
     author_email    |-> author_email,
     parents         |-> IF parents = <<>> THEN <<>> ELSE parents,
     is_merge_commit |-> is_merge_commit,
     changed_files   |-> IF changed_files = <<>> THEN <<>> ELSE changed_files]

\* from_commit_msg deciding the merge status on the first raw line.
from_commit_msg_raw_first_line(commit_msg_str) ==
    LET commit_msg_obj == from_full_message(commit_msg_str)
        raw_lines == splitlines(commit_msg_str)
        is_merge_commit == raw_lines # <<>> /\ startswith(raw_lines[1], Merge)
    IN  << GitCommit(commit_msg_obj, None, None, None, None, <<>>,
                     is_merge_commit, <<>>) >>

\* GitContext.from_commit_msg: the commits of the context it returns.
from_commit_msg(commit_msg_str) ==
    LET commit_msg_obj == from_full_message(commit_msg_str)
        is_merge_commit == startswith(commit_msg_obj.title, Merge)
    IN  << GitCommit(commit_msg_obj, None, None, None, None, <<>>,
                     is_merge_commit, <<>>) >>

\* from_local_repository's split of the rev-list output, done on newlines.
rev_list_shas_split_on_newline(out) == split(out, LF)

\* from_local_repository, line 171: sh.git("rev-list", refspec).split()
rev_list_shas(out) == split_ws(out)

\* A merge test that counts one parent as a merge.
commit_is_merge_commit_from_one(commit_parents) == Len(commit_parents) >= 1

\* from_local_repository, line 181
commit_is_merge_commit(commit_parents) == Len(commit_parents) > 1

\* ------------------------------------------------------------------------
\* Inputs of the entry points
\* ------------------------------------------------------------------------

\* Lines a raw commit message is made of: an empty line, plain text, a title
\* of a merge, a comment line, text holding the comment leader past its start,
\* the cut line.
LineChoices ==
    { <<>>, <<"x">>, Merge, COMMENT_CHAR \o <<"x">>, <<"x">> \o COMMENT_CHAR, CUTLINE }

LineEnds == { <<LF>>, <<CR>>, <<CR, LF>> }

\* Texts of exactly n lines, the last one not terminated.
RECURSIVE TextsOf(_)
TextsOf(n) ==
    IF n = 1 THEN LineChoices
    ELSE { t \o e \o l : t \in TextsOf(n - 1), e \in LineEnds, l \in LineChoices }

\* Raw commit messages: up to MaxLines lines, with or without a final newline.
Messages ==
    LET texts == UNION { TextsOf(n) : n \in 1..MaxLines }
    IN  { <<>> } \cup texts \cup { t \o <<LF>> : t \in texts }

\* ------------------------------------------------------------------------
\* Initial state: the module is imported, no call is running
\* ------------------------------------------------------------------------

NoResult == [kind |-> "none", commits |-> <<>>, exc |-> "", msg |-> <<>>]

Init ==
    /\ COMMENT_CHAR \in { git_commentchar(r) : r \in ConfigResults }
    /\ pc = "idle"
    /\ entry = "none"
    /\ refspec = None
    /\ repository_path = ""
    /\ sha_list = <<>>
    /\ idx = 0
    /\ pending = <<>>
    /\ commits = <<>>
    /\ result = NoResult
    /\ calls = <<>>
    /\ reported = <<>>
    /\ served = <<>>

\* ------------------------------------------------------------------------
\* GitContext.from_commit_msg
\* ------------------------------------------------------------------------

Call_from_commit_msg ==
    /\ pc = "idle"
    /\ \E commit_msg_str \in Messages :
          /\ commits' = from_commit_msg(commit_msg_str)
          /\ result' = [NoResult EXCEPT !.kind = "context",
                                        !.commits = from_commit_msg(commit_msg_str)]
    /\ entry' = "from_commit_msg"
    /\ pc' = "done"
    /\ UNCHANGED <<COMMENT_CHAR, refspec, repository_path, sha_list, idx, pending,
                   calls, reported, served>>

\* ------------------------------------------------------------------------
\* GitContext.from_local_repository, one step per tool invocation
\* ------------------------------------------------------------------------

Call_from_local_repository ==
    /\ pc = "idle"
    /\ refspec' \in RefSpecs
    /\ repository_path' = "/repo"
    /\ entry' = "from_local_repository"
    /\ commits' = <<>>
    /\ pc' = "resolve"
    /\ UNCHANGED <<COMMENT_CHAR, sha_list, idx, pending, result, calls, reported, served>>

\* The invocation the call is about to make.
NextCommand ==
    IF pc = "resolve"
    THEN [cmd |-> IF refspec = None THEN "log -1 --pretty=%H" ELSE "rev-list", sha |-> None]
    ELSE IF pc = "loop"
    THEN [cmd |-> "log -1 --pretty=%aN,%aE,%ai,%P%n%B", sha |-> sha_list[idx]]
    ELSE [cmd |-> "diff-tree --no-commit-id --name-only -r", sha |-> sha_list[idx]]

Invoked(outcome) ==
    Append(calls, [cmd |-> NextCommand.cmd, sha |-> NextCommand.sha, outcome |-> outcome])

\* Lines 165-171: the resolution of the commits to retrieve.
ResolveLatest ==
    /\ pc = "resolve"
    /\ refspec = None
    /\ \E sha \in Shas :
          /\ sha_list' = << replace(LogHeadOutput(sha), LF) >>
          /\ reported' = << sha >>
    /\ calls' = Invoked("ok")
    /\ idx' = 1
    /\ pc' = "loop"
    /\ UNCHANGED <<COMMENT_CHAR, entry, refspec, repository_path, pending, commits,
                   result, served>>

ResolveRefspec ==
    /\ pc = "resolve"
    /\ refspec # None
    /\ \E ids \in IdLists :
          /\ sha_list' = rev_list_shas(RevListOutput(ids))
          /\ reported' = ids
    /\ calls' = Invoked("ok")
    /\ idx' = 1
    /\ pc' = "loop"
    /\ UNCHANGED <<COMMENT_CHAR, entry, refspec, repository_path, pending, commits,
                   result, served>>

\* A FetchLog that skips a record whose header does not have four parts.
FetchLog_skipping_malformed ==
    /\ pc = "loop"
    /\ idx <= Len(sha_list)
    /\ \E rec \in LogRecords :
          LET raw_commit == split(LogOutput(rec), LF)
              header == split(raw_commit[1], ",")
              commit_msg == join(Tail(raw_commit), <<LF>>)
          IN  /\ served' = Append(served, rec)
              /\ IF Len(header) = 4
                 THEN LET commit_parents == split(header[4], " ")
                      IN  /\ pending' = [name |-> header[1],
                                         email |-> header[2],
                                         date |-> header[3],
                                         commit_msg |-> commit_msg,
                                         commit_parents |-> commit_parents,
                                         commit_is_merge_commit |->
                                             commit_is_merge_commit(commit_parents)]
                          /\ pc' = "difftree"
                          /\ idx' = idx
                 ELSE /\ pending' = <<>>
                      /\ pc' = "loop"
                      /\ idx' = idx + 1
    /\ calls' = Invoked("ok")
    /\ UNCHANGED <<COMMENT_CHAR, entry, refspec, repository_path, sha_list,
                   commits, result, reported>>

\* Lines 175-181: the log record of sha_list[idx] and its header.  The tuple
\* assignment of line 178 raises ValueError unless the header has four parts;
\* neither except clause catches it.
FetchLog ==
    /\ pc = "loop"
    /\ idx <= Len(sha_list)
    /\ \E rec \in LogRecords :
          LET raw_commit == split(LogOutput(rec), LF)
              header == split(raw_commit[1], ",")
              commit_msg == join(Tail(raw_commit), <<LF>>)
          IN  /\ served' = Append(served, rec)
              /\ IF Len(header) = 4
                 THEN LET commit_parents == split(header[4], " ")
                      IN  /\ pending' = [name |-> header[1],
                                         email |-> header[2],
                                         date |-> header[3],
                                         commit_msg |-> commit_msg,
                                         commit_parents |-> commit_parents,
                                         commit_is_merge_commit |->
                                             commit_is_merge_commit(commit_parents)]
                          /\ pc' = "difftree"
                          /\ result' = result
                 ELSE /\ pending' = <<>>
                      /\ pc' = "done"
                      /\ result' = [NoResult EXCEPT !.kind = "raise",
                                                    !.exc = "ValueError"]
    /\ calls' = Invoked("ok")
    /\ UNCHANGED <<COMMENT_CHAR, entry, refspec, repository_path, sha_list, idx,
                   commits, reported>>

\* Lines 184-198: the changed files, the date, the message, the commit.
FetchDiffTree ==
    /\ pc = "difftree"
    /\ \E out \in DiffTreeOutputs :
          LET changed_files == split_ws(out)
              commit_date == arrow_get(pending.date)
              commit_msg_obj == from_full_message(pending.commit_msg)
              commit == GitCommit(commit_msg_obj, sha_list[idx], commit_date,
                                  pending.name, pending.email, pending.commit_parents,
                                  pending.commit_is_merge_commit, changed_files)
          IN  commits' = Append(commits, commit)
    /\ calls' = Invoked("ok")
    /\ idx' = idx + 1
    /\ pending' = <<>>
    /\ pc' = "loop"
    /\ UNCHANGED <<COMMENT_CHAR, entry, refspec, repository_path, sha_list, result,
                   reported, served>>

\* Line 210: the loop is over, the context is returned.
ReturnContext ==
    /\ pc = "loop"
    /\ idx > Len(sha_list)
    /\ result' = [NoResult EXCEPT !.kind = "context", !.commits = commits]
    /\ pc' = "done"
    /\ UNCHANGED <<COMMENT_CHAR, entry, refspec, repository_path, sha_list, idx,
                   pending, commits, calls, reported, served>>

\* The message of the GitContextError raised for a non-zero exit.
error_msg(stderr, full_cmd) ==
    IF stderr = NotARepoStderr
    THEN <<repository_path, " is not a git repository.">>
    ELSE <<"An error occurred while executing '", full_cmd, "': ", stderr>>

\* A failing invocation after which the commit at hand is skipped.
GitCommandFails_skipping ==
    /\ pc \in {"loop", "difftree"}
    /\ idx <= Len(sha_list)
    /\ \E f \in Failures : calls' = Invoked(f.exc)
    /\ idx' = idx + 1
    /\ pending' = <<>>
    /\ pc' = "loop"
    /\ UNCHANGED <<COMMENT_CHAR, entry, refspec, repository_path, sha_list, commits,
                   result, reported, served>>

\* A failing invocation that is made again.
GitCommandFails_retrying ==
    /\ pc \in {"resolve", "difftree"} \/ (pc = "loop" /\ idx <= Len(sha_list))
    /\ Len(calls) < 2 * MaxCommits + 1
    /\ \E f \in Failures : calls' = Invoked(f.exc)
    /\ UNCHANGED <<COMMENT_CHAR, pc, entry, refspec, repository_path, sha_list, idx,
                   pending, commits, result, reported, served>>

\* Lines 200-208: the invocation at hand fails; the call ends with a raise.
GitCommandFails ==
    /\ pc \in {"resolve", "difftree"} \/ (pc = "loop" /\ idx <= Len(sha_list))
    /\ \E f \in Failures :
          /\ calls' = Invoked(f.exc)
          /\ result' = IF f.exc = "CommandNotFound"
                       THEN [NoResult EXCEPT !.kind = "raise",
                                             !.exc = "GitNotInstalledError"]
                       ELSE [NoResult EXCEPT !.kind = "raise",
                                             !.exc = "GitContextError",
                                             !.msg = error_msg(f.stderr, NextCommand.cmd)]
    /\ pc' = "done"
    /\ UNCHANGED <<COMMENT_CHAR, entry, refspec, repository_path, sha_list, idx,
                   pending, commits, reported, served>>

Next ==
    \/ Call_from_commit_msg
    \/ Call_from_local_repository
    \/ ResolveLatest
    \/ ResolveRefspec
    \/ FetchLog
    \/ FetchDiffTree
    \/ ReturnContext
    \/ GitCommandFails

Spec == Init /\ [][Next]_vars

\* ------------------------------------------------------------------------
\* Notions the properties are stated with
\* ------------------------------------------------------------------------

IsComment(line) == startswith(line, COMMENT_CHAR)

\* The lines of s when a line ends at a newline and nowhere else.
NewlineLines(s) == split(s, LF)

\* s without its trailing newlines, and s without one trailing newline.
StripTrailingNewlines(s) ==
    LET keep == { i \in 1..Len(s) : s[i] # LF }
    IN  IF keep = {} THEN <<>>
        ELSE SubSeq(s, 1, CHOOSE i \in keep : \A j \in keep : j <= i)

DropOneNewline(s) ==
    IF s # <<>> /\ s[Len(s)] = LF THEN SubSeq(s, 1, Len(s) - 1) ELSE s

\* s has no comment line and no cut line.
PlainText(s) ==
    \A k \in 1..Len(NewlineLines(s)) :
        /\ ~IsComment(NewlineLines(s)[k])
        /\ NewlineLines(s)[k] # CUTLINE

HasCutLine(all_lines) == \E k \in 1..Len(all_lines) : all_lines[k] = CUTLINE

FirstCutLine(all_lines) ==
    CHOOSE k \in 1..Len(all_lines) :
        /\ all_lines[k] = CUTLINE
        /\ \A j \in 1..(k - 1) : all_lines[j] # CUTLINE

\* The lines before the first cut line that are no comments.
KeptBeforeCut(all_lines) ==
    SelectSeq(SubSeq(all_lines, 1, FirstCutLine(all_lines) - 1),
              LAMBDA line : ~IsComment(line))

Local == entry = "from_local_repository"

FailedCalls == { k \in 1..Len(calls) : calls[k].outcome # "ok" }

\* The records served whose header line has fewer than four parts.
ShortHeaders == { k \in 1..Len(served) : Len(served[k].header) < 4 }

\* ------------------------------------------------------------------------
\* Properties
\* ------------------------------------------------------------------------

\* C1: when the line list of a raw message holds the cut line, full, title and
\* body are built only from the non-comment lines strictly before the first
\* cut line; nothing at or after it reaches full.
C1_CutLineDropsRest ==
    \A i \in 1..Len(commits) :
        LET m == commits[i].message
            all_lines == splitlines(m.original)
        IN  HasCutLine(all_lines) =>
              LET kept == KeptBeforeCut(all_lines)
              IN  /\ m.full = join(kept, <<LF>>)
                  /\ m.title = (IF kept = <<>> THEN <<>> ELSE kept[1])
                  /\ m.body = (IF kept = <<>> THEN <<>> ELSE Tail(kept))

\* A message with text before the cut line and a non-comment line after it.
C1_Witness ==
    \E i \in 1..Len(commits) :
        LET m == commits[i].message
            all_lines == splitlines(m.original)
        IN  /\ pc = "done"
            /\ HasCutLine(all_lines)
            /\ m.full # <<>>
            /\ \E j \in (FirstCutLine(all_lines) + 1)..Len(all_lines) :
                  all_lines[j] # <<>> /\ ~IsComment(all_lines[j])

\* C2: full is title followed by the body lines, joined with newlines; no
\* line of full is a comment or the cut line; all three are empty when every
\* line considered is a comment.
C2_FullIsTitleAndBody ==
    \A i \in 1..Len(commits) :
        LET m == commits[i].message
            all_lines == splitlines(m.original)
            considered == IF HasCutLine(all_lines)
                          THEN SubSeq(all_lines, 1, FirstCutLine(all_lines) - 1)
                          ELSE all_lines
        IN  /\ m.full = join(<<m.title>> \o m.body, <<LF>>)
            /\ \A k \in 1..Len(NewlineLines(m.full)) :
                  /\ ~IsComment(NewlineLines(m.full)[k])
                  /\ NewlineLines(m.full)[k] # CUTLINE
            /\ (\A k \in 1..Len(considered) : IsComment(considered[k]))
                  => m.title = <<>> /\ m.body = <<>> /\ m.full = <<>>

\* A message that opens with a comment line and still has a title and a body.
C2_Witness ==
    \E i \in 1..Len(commits) :
        LET m == commits[i].message
        IN  /\ pc = "done"
            /\ m.title # <<>>
            /\ IsComment(splitlines(m.original)[1])
            /\ m.body # <<>>

\* C3 as stated: for a text without comment lines and without cut line, full is
\* the text up to trailing newlines, title is its first line, and parsing full
\* again gives the same full; lines end at newlines only.
C3_AsStated ==
    \A i \in 1..Len(commits) :
        LET m == commits[i].message
            s == m.original
        IN  PlainText(s) =>
              /\ StripTrailingNewlines(m.full) = StripTrailingNewlines(s)
              /\ m.title = NewlineLines(s)[1]
              /\ from_full_message(m.full).full = m.full

\* C3, amended: for a text without comment lines, without cut line and without
\* carriage return, full is the text less one trailing newline, title is its
\* first line, and parsing full again gives full less one trailing newline.
C3_PlainTextRoundTrip ==
    \A i \in 1..Len(commits) :
        LET m == commits[i].message
            s == m.original
        IN  (PlainText(s) /\ find(s, {CR}) = 0) =>
              /\ m.full = DropOneNewline(s)
              /\ m.title = NewlineLines(s)[1]
              /\ from_full_message(m.full).full = DropOneNewline(m.full)

\* A plain text of several lines, one of them empty, that ends with a newline.
C3_Witness ==
    \E i \in 1..Len(commits) :
        LET m == commits[i].message
            s == m.original
        IN  /\ pc = "done"
            /\ PlainText(s)
            /\ find(s, {CR}) = 0
            /\ Len(NewlineLines(s)) >= 4
            /\ NewlineLines(s)[2] = <<>>
            /\ s[Len(s)] = LF
            /\ m.title # <<>>

\* C4 as stated: a served record with no parent gives a commit whose parents
\* are the empty sequence and which is no merge commit.
C4_AsStated ==
    Local =>
        \A i \in 1..Len(commits) :
            served[i].parents = <<>> =>
                /\ commits[i].parents = <<>>
                /\ ~commits[i].is_merge_commit

\* C5: a commit of from_local_repository is a merge commit exactly when its
\* record lists more than one parent, whatever its title.
C5_MergeIffSeveralParents ==
    Local =>
        \A i \in 1..Len(commits) :
            commits[i].is_merge_commit <=> (Len(served[i].parents) > 1)

\* A commit with one parent and a title that starts with Merge.
C5_Witness ==
    /\ Local
    /\ \E i \in 1..Len(commits) :
          /\ Len(served[i].parents) = 1
          /\ startswith(commits[i].message.title, Merge)
          /\ ~commits[i].is_merge_commit

\* C6: from_commit_msg returns a context of one commit without sha, author,
\* date, parents or changed files, a merge commit exactly when its parsed title
\* starts with Merge; for the empty string all parts are empty and it is none.
C6_FromCommitMsg ==
    (entry = "from_commit_msg" /\ pc = "done") =>
        /\ result.kind = "context"
        /\ Len(result.commits) = 1
        /\ LET c == result.commits[1]
           IN  /\ c.sha = None
               /\ c.author_name = None
               /\ c.author_email = None
               /\ c.date = None
               /\ c.parents = <<>>
               /\ c.changed_files = <<>>
               /\ c.is_merge_commit <=> startswith(c.message.title, Merge)
               /\ c.message.original = <<>> =>
                     /\ c.message.title = <<>>
                     /\ c.message.body = <<>>
                     /\ c.message.full = <<>>
                     /\ ~c.is_merge_commit

\* A message whose title Merge follows a leading comment line.
C6_Witness ==
    /\ entry = "from_commit_msg"
    /\ pc = "done"
    /\ result.commits[1].is_merge_commit
    /\ result.commits[1].message.original # <<>>
    /\ IsComment(splitlines(result.commits[1].message.original)[1])

\* C7: a returned context has one commit per identifier the tool reported, in
\* the order reported; without refspec that is exactly one commit.
C7_OneCommitPerSha ==
    (Local /\ result.kind = "context") =>
        /\ Len(result.commits) = Len(reported)
        /\ \A i \in 1..Len(reported) : result.commits[i].sha = reported[i]
        /\ refspec = None => Len(result.commits) = 1

\* A context returned for a refspec that resolved to several commits.
C7_Witness ==
    /\ Local
    /\ result.kind = "context"
    /\ refspec # None
    /\ Len(result.commits) >= 2

\* C8: once an invocation has failed, the call has ended with a raise and
\* without a context: GitNotInstalledError for a missing executable,
\* GitContextError for a non-zero exit.
C8_FailureRaises ==
    (Local /\ FailedCalls # {}) =>
        /\ pc = "done"
        /\ result.kind = "raise"
        /\ result.commits = <<>>
        /\ \A k \in FailedCalls :
              result.exc = (IF calls[k].outcome = "CommandNotFound"
                            THEN "GitNotInstalledError" ELSE "GitContextError")

\* A diff-tree that exits non-zero after a first commit was appended.
C8_Witness ==
    /\ Local
    /\ Len(commits) >= 1
    /\ Len(calls) = 5
    /\ calls[5].outcome = "ErrorReturnCode"
    /\ result.exc = "GitContextError"

\* C9 as stated: a header line of fewer than four parts ends the call with an
\* error of the core's taxonomy, and no context.
C9_AsStated ==
    (Local /\ ShortHeaders # {}) =>
        /\ pc = "done"
        /\ result.kind = "raise"
        /\ result.exc \in {"GitContextError", "GitNotInstalledError",
                           "MalformedRecordError"}

\* C9, amended: a header line of fewer than four parts ends the call with the
\* ValueError of the tuple assignment, which is no GitContextError; the commit
\* is not skipped and no context is returned.
C9_ShortHeaderRaisesValueError ==
    (Local /\ ShortHeaders # {}) =>
        /\ pc = "done"
        /\ result.kind = "raise"
        /\ result.exc = "ValueError"
        /\ result.commits = <<>>
        /\ ShortHeaders = {Len(served)}
        /\ Len(calls) = 2 * Len(served)

\* A short header met at the second commit, the first one appended already.
C9_Witness ==
    /\ Local
    /\ Len(commits) = 1
    /\ ShortHeaders = {2}
    /\ pc = "done"

\* C10: the invocations are the resolution, then for each reported identifier
\* in order its log record and its diff-tree; a failing invocation, and the
\* log record whose header makes the call raise, is the last one made.
C10_InvocationOrder ==
    Local =>
        /\ \A k \in 1..Len(calls) :
              /\ k = 1 => /\ calls[k].sha = None
                          /\ calls[k].cmd = (IF refspec = None
                                             THEN "log -1 --pretty=%H" ELSE "rev-list")
              /\ (k > 1 /\ k % 2 = 0) =>
                    /\ calls[k].cmd = "log -1 --pretty=%aN,%aE,%ai,%P%n%B"
                    /\ k \div 2 <= Len(reported)
                    /\ calls[k].sha = reported[k \div 2]
              /\ (k > 1 /\ k % 2 = 1) =>
                    /\ calls[k].cmd = "diff-tree --no-commit-id --name-only -r"
                    /\ calls[k].sha = reported[(k - 1) \div 2]
              /\ k < Len(calls) => calls[k].outcome = "ok"
        /\ result.kind = "raise" =>
              \/ FailedCalls = {Len(calls)}
              \/ FailedCalls = {} /\ Len(calls) = 2 * Len(served)
        /\ result.kind = "context" => Len(calls) = 1 + 2 * Len(reported)

\* The log record of a second commit fails after the first commit's two fetches.
C10_Witness ==
    /\ Local
    /\ Len(calls) = 4
    /\ calls[4].outcome = "ErrorReturnCode"
    /\ calls[2].sha # calls[4].sha
    /\ pc = "done"

====
